---- MODULE Spec2Model ----
(***************************************************************************)
(* Gateway (src/src/gateway/server.ts) and Browser Session Manager         *)
(* (src/src/browser/service.ts) of OpenClaw-Mobile as one state machine.   *)
(*                                                                         *)
(* One step of the model is one turn of the Node event loop: the           *)
(* synchronous prefix of a call up to its first await on I/O, or the       *)
(* continuation that runs when such an await settles, together with every  *)
(* continuation that follows from it through already-settled promises.     *)
(***************************************************************************)
EXTENDS Integers, Sequences, FiniteSets, TLC

\* ---------------------------------------------------------------- bounds
MaxCalls == 3         \* calls over a run that suspend on I/O (start, create, ...)
MaxSearches == 2      \* web_search calls over a run that miss the cache
MaxNow == 2           \* the clock runs from 0 to MaxNow ticks
MaxHalves == 244      \* numbers given to the tool run up to MaxHalves / 2
MaxTextLen == 36      \* texts given to truncateContent have up to MaxTextLen characters
MaxTasks == 4         \* parallel() is given MaxTasks tasks

\* ------------------------------------------------------ program constants
MaxBrowserSessions == 1      \* resources.maxBrowserSessions (documented cap)
ContentLimit == 5000         \* content.slice(0, 5000)
DEFAULT_TIMEOUT_SECONDS == 30
MAX_TIMEOUT_SECONDS == 120
ExtractionTimeoutCap == 10   \* Math.min(params.timeoutSeconds, 10)
DEFAULT_SEARCH_COUNT == 5
MAX_SEARCH_COUNT == 10
MAX_CONTENT_LENGTH == 5000

\* ------------------------------------------------------------ input sets
SessionIds == {"s1", "s2"}   \* session ids, caller-supplied or generated
NoId == "none"                \* a frame whose envelope carries no id
MsgIds == {"m1", NoId}        \* correlation ids of inbound frames
NoPayload == "nopayload"      \* a frame without payload (undefined / null)
Payloads == SessionIds \cup {NoPayload}
PageTextLens == {3, 5001}     \* lengths of document.body.innerText
Conns == {1}                  \* WebSocket connections
TwoConns == {1, 2}            \* two clients, of which only the first creates sessions

\* Strings of the search pipeline are sequences of characters.
Queries == {<<"a">>, <<"A">>}   \* args.query
Counts == {2}                 \* the resolved result count
Languages == {<<>>}           \* args.search_lang, empty when not given
Instances == {"i1", "i2", "i3"}   \* SEARXNG_INSTANCES
\* data.results of a provider: one element per result, TRUE when it has a url
ResultLists == {<<>>, <<TRUE, FALSE>>, <<TRUE, TRUE, TRUE>>}
CacheTtl == 1                 \* params.cacheTtlMs, in ticks of the clock
\* resources.maxSearchConcurrency: the default and a lower setting
SearchConcurrencySettings == {1, 2}

VARIABLES
  browserEnabled,   \* config.browser.enabled
  httpServer,       \* GatewayServer.httpServer: server instance, 0 = null
  wsServer,         \* GatewayServer.wsServer: server instance, 0 = null
  browserService,   \* GatewayServer.browserService: manager instance, 0 = null
  isRunning,        \* GatewayServer.isRunning
  servers,          \* the http/ws server pairs created so far
  svcs,             \* the BrowserService instances created so far
  browsers,         \* the browser processes launched so far
  conns,            \* established WebSocket connections
  tasks,            \* the calls that suspended at an await, in order of arrival
  done,             \* the call that returned in the latest step, with what it sent
  now,              \* Date.now()
  searchCache,      \* SEARCH_CACHE: key -> entry
  timers,           \* the cleanup timers writeCache has scheduled
  searches,         \* the runWebSearch calls that suspended at an await
  input,            \* the arguments of a function of the tool called by itself
  output,           \* what that call returned
  par               \* the parallel() call: its locals and the tasks still running

vars == <<browserEnabled, httpServer, wsServer, browserService, isRunning,
          servers, svcs, browsers, conns, tasks, done,
          now, searchCache, timers, searches, input, output, par>>

searchVars == <<now, searchCache, timers, searches>>

toolVars == <<input, output, par>>

gatewayVars == <<httpServer, wsServer, browserService, isRunning, servers>>

browserVars == <<gatewayVars, svcs, browsers, conns, tasks>>

\* ------------------------------------------------------------- records
NoKids == [s \in SessionIds |-> [h |-> 0, pc |-> "none"]]

Idle == [op |-> "idle", conn |-> 0, mid |-> NoId, arg |-> "", pc |-> "idle",
         svc |-> 0, sid |-> "", h |-> 0, srv |-> 0, kids |-> NoKids]

\* A call that suspended and has returned since.
Gone == [Idle EXCEPT !.op = "gone", !.pc = "gone"]

Task(op, conn, mid, arg, pc, svc, sid, h, srv, kids) ==
  [op |-> op, conn |-> conn, mid |-> mid, arg |-> arg, pc |-> pc,
   svc |-> svc, sid |-> sid, h |-> h, srv |-> srv, kids |-> kids]

Resp(type, mid, error, sessionId, len) ==
  [type |-> type, mid |-> mid, error |-> error, sessionId |-> sessionId, len |-> len]

Done(op, conn, mid, arg, result, steps, svc, sent) ==
  [op |-> op, conn |-> conn, mid |-> mid, arg |-> arg, result |-> result,
   steps |-> steps, svc |-> svc, sent |-> sent]

NoDone == Done("none", 0, NoId, "", "", "", 0, <<>>)

FrameOps == {"ping", "browser.create", "browser.navigate", "browser.content",
             "browser.close", "unknown"}

Min(a, b) == IF a < b THEN a ELSE b

\* --------------------------------------------------------- task slots
FreeSlots == {t \in 1..MaxCalls : tasks[t] = Idle}
HasSlot == FreeSlots # {}
Slot == CHOOSE t \in FreeSlots : \A u \in FreeSlots : t <= u

\* The turn that produced `done` is over: the next event is taken up.
Ready == done = NoDone

Spawn(rec) == tasks' = [tasks EXCEPT ![Slot] = rec]
Retire(t) == tasks' = [tasks EXCEPT ![t] = Gone]

\* ------------------------------------------------------------ replies
\* ws.send(JSON.stringify({type: "error", id, error})); an undefined id is
\* dropped by JSON.stringify, which NoId stands for.
\* The catch block forgets the id, as the catch of line 141 does.
SendErrorDropsId(mid, text) == <<Resp("error", NoId, text, "", 0)>>

SendError(mid, text) == <<Resp("error", mid, text, "", 0)>>

\* A pong that forgets the id of the ping.
SendPongNoId(mid) == <<Resp("pong", NoId, "", "", 0)>>

SendPong(mid) == <<Resp("pong", mid, "", "", 0)>>

SendCreated(mid, sid) == <<Resp("browser.created", mid, "", sid, 0)>>

SendNavigated(mid) == <<Resp("browser.navigated", mid, "", "", 0)>>

\* An answer that carries the whole page text.
SendContentUncut(mid, len) == <<Resp("browser.content", mid, "", "", len)>>

SendContent(mid, len) == <<Resp("browser.content", mid, "", "", Min(len, ContentLimit))>>

SendClosed(mid) == <<Resp("browser.closed", mid, "", "", 0)>>

SendWelcome == <<Resp("connected", NoId, "", "", 0)>>

\* What a call of the manager's API answers to its caller: a gateway handler
\* sends `sent` on its socket, a direct caller of the manager gets no frame.
Answer(op, sent) == IF op \in FrameOps THEN sent ELSE <<>>

\* ------------------------------------------------------ BrowserService
NewService == [sessions |-> [s \in SessionIds |-> 0], isShuttingDown |-> FALSE,
               shutdownRuns |-> 0]

Services == 1..Len(svcs)

Tracked(v) == {s \in SessionIds : svcs[v].sessions[s] # 0}

\* createSession without its shutting-down guard.
CreateNeverRejected(v) == FALSE

\* createSession line 167: if (this.isShuttingDown) throw
CreateRejected(v) == svcs[v].isShuttingDown

\* shutdown line 336: if (this.isShuttingDown) return
AlreadyShuttingDown(v) == svcs[v].isShuttingDown

\* shutdown lines 340-345: set the flag, then call closeSession(id) for every
\* key; each call runs synchronously up to its await of context.close().
ShutdownBegin(v) ==
  [svcs EXCEPT ![v].isShuttingDown = TRUE, ![v].shutdownRuns = @ + 1]

\* closeSession lines 315-323 for one id: the session object is captured, and
\* the call suspends at context.close(); an untracked id returns at once.
CloseStart(v, s) ==
  IF svcs[v].sessions[s] # 0
    THEN [h |-> svcs[v].sessions[s], pc |-> "ctx"]
    ELSE [h |-> 0, pc |-> "none"]

KidsFor(v) == [s \in SessionIds |-> CloseStart(v, s)]

OneKid(v, s) == [NoKids EXCEPT ![s] = CloseStart(v, s)]

\* A Promise.all that a finished close does not settle.
SettledOnlyIfNoClose(kids) == \A s \in SessionIds : kids[s].pc = "none"

\* shutdown line 347 / closeSession line 323: every awaited close has settled.
Settled(kids) == \A s \in SessionIds : kids[s].pc \in {"none", "done"}

\* A finally block that leaves the entry in the map.
DeleteSessionSkipped(sv, v, s) == sv

\* closeSession line 328: this.sessions.delete(sessionId)
DeleteSession(sv, v, s) == [sv EXCEPT ![v].sessions[s] = 0]

\* shutdown line 348: this.sessions.clear()
ClearSessions(sv, v) == [sv EXCEPT ![v].sessions = [s \in SessionIds |-> 0]]

\* createSession line 208: this.sessions.set(id, session)
SetSession(sv, v, s, h) == [sv EXCEPT ![v].sessions[s] = h]

\* --------------------------------------------------------- GatewayServer
\* stop line 306: if (!this.isRunning) return
StopNotRunning == ~isRunning

\* start line 74: if (this.isRunning) return
StartAlreadyRunning == isRunning

\* stop() keeps its reference to the closed WebSocket server.
WsKeptAfterClose == wsServer

\* stop line 321: this.wsServer = null
WsAfterClose == 0

\* stop line 327: this.httpServer = null
HttpAfterClose == 0

\* stop lines 315-330, the part after `await this.browserService.shutdown()`.
StopTail ==
  /\ browserService' = 0
  /\ servers' = [i \in DOMAIN servers |->
       [state |-> IF i = httpServer THEN "closed" ELSE servers[i].state,
        wsCloses |-> servers[i].wsCloses + (IF i = wsServer THEN 1 ELSE 0),
        httpCloses |-> servers[i].httpCloses + (IF i = httpServer THEN 1 ELSE 0)]]
  /\ wsServer' = WsAfterClose
  /\ httpServer' = HttpAfterClose
  /\ isRunning' = FALSE

Listening == {i \in DOMAIN servers : servers[i].state = "listening"}

\* ------------------------------------------------------- search pipeline
\* A string is the sequence of its characters, a character a one-letter
\* string.
KeyLimit == 256

KeptChars == {"a", "b", "c", "d", "e", "f", "g", "h", "i", "j", "k", "l", "m",
              "n", "o", "p", "q", "r", "s", "t", "u", "v", "w", "x", "y", "z",
              "_", "-"} \cup {ToString(d) : d \in 0..9}

ToLowerCase(str) ==
  [i \in DOMAIN str |-> CASE str[i] = "A" -> "a" [] str[i] = "B" -> "b" [] OTHER -> str[i]]

RECURSIVE TrimStart(_)
TrimStart(str) ==
  IF str # <<>> /\ Head(str) = " " THEN TrimStart(Tail(str)) ELSE str

RECURSIVE TrimEnd(_)
TrimEnd(str) ==
  IF str # <<>> /\ str[Len(str)] = " " THEN TrimEnd(SubSeq(str, 1, Len(str) - 1)) ELSE str

\* .replace(/\s+/g, "_"): every run of white space becomes one underscore;
\* afterSpace tells that the character before str is white space. The string
\* is worked on by halves.
RECURSIVE CollapseSpaces(_, _)
CollapseSpaces(str, afterSpace) ==
  IF str = <<>> THEN <<>>
  ELSE IF Len(str) = 1
    THEN IF str[1] # " " THEN str ELSE IF afterSpace THEN <<>> ELSE <<"_">>
    ELSE LET h == Len(str) \div 2
         IN CollapseSpaces(SubSeq(str, 1, h), afterSpace)
              \o CollapseSpaces(SubSeq(str, h + 1, Len(str)), str[h] = " ")

SpacesToUnderscore(str) == CollapseSpaces(str, FALSE)

\* .replace(/[^a-z0-9_-]/g, "_")
OthersToUnderscore(str) ==
  [i \in DOMAIN str |-> IF str[i] \in KeptChars THEN str[i] ELSE "_"]

normalizeCacheKey(str) ==
  LET k == OthersToUnderscore(SpacesToUnderscore(TrimEnd(TrimStart(ToLowerCase(str)))))
  IN SubSeq(k, 1, Min(Len(k), KeyLimit))

\* What execute hands to runWebSearch.
Requests == [query : Queries, count : Counts, language : Languages, fetchContent : BOOLEAN]

\* runWebSearch lines 260-262
CacheKey(r) ==
  normalizeCacheKey(<<"s", "e", "a", "r", "x", "n", "g", ":">> \o r.query
                      \o <<":", ToString(r.count), ":">>
                      \o (IF r.language = <<>> THEN <<"d", "e", "f", "a", "u", "l", "t">>
                                               ELSE r.language)
                      \o <<":">>
                      \o (IF r.fetchContent THEN <<"t", "r", "u", "e">>
                                            ELSE <<"f", "a", "l", "s", "e">>))

Keys == {CacheKey(r) : r \in Requests}

\* A query as long as a whole cache key, and the requests that carry it.
LongQueries == {[i \in 1..KeyLimit |-> "a"]}

LongRequests == [query : LongQueries, count : Counts, language : Languages, fetchContent : BOOLEAN]

\* The long query asked with two result counts, without content.
CountRequests == [query : LongQueries, count : {1, 2}, language : Languages, fetchContent : {FALSE}]

LongKeys == {CacheKey(r) : r \in LongRequests}

NoEntry == [value |-> <<>>, timestamp |-> -1]

\* The texts of the j-th result of a provider, entry.title and entry.content
\* (every second result has no description), and the text of a page.
RawTitle(j) == <<"t", ToString(j)>>

RawDescription(j) == IF j % 2 = 0 THEN <<>> ELSE <<"d", ToString(j)>>

RawContent == <<"c">>

\* A wrapper that hands the text on as it is.
wrapWebContentNot(content, source) == content

\* external-content.ts lines 14-28
wrapWebContent(content, source) ==
  IF content = <<>> THEN <<>>
  ELSE <<"<!-- EXTERNAL_CONTENT [Source: ", source, "] -->\n">> \o content
         \o <<"\n<!-- END_EXTERNAL_CONTENT -->">>

\* runWebSearch lines 310-316: the j-th entry of mappedResults; fetched
\* tells that the extraction gave a text. <<>> is "" or undefined.
MappedResult(j, fetched) ==
  [title |-> IF RawTitle(j) # <<>> THEN wrapWebContent(RawTitle(j), "web_search") ELSE <<>>,
   description |-> IF RawDescription(j) # <<>>
                     THEN wrapWebContent(RawDescription(j), "web_search") ELSE <<>>,
   content |-> IF fetched THEN wrapWebContent(RawContent, "web_search") ELSE <<>>]

\* A payload that does not say which instance answered.
PayloadNoInstance(r, instance, contents, error) ==
  [query |-> r.query, instance |-> "", count |-> Len(contents),
   contents |-> contents,
   results |-> [j \in DOMAIN contents |-> MappedResult(j, contents[j])],
   error |-> error, cached |-> FALSE]

\* The payload of lines 280-287 (no instance, no results, the error text) or
\* of lines 319-332; tookMs is left out. contents[j] tells whether result j
\* carries content, results[j] is its entry in the payload.
Payload(r, instance, contents, error) ==
  [query |-> r.query, instance |-> instance, count |-> Len(contents),
   contents |-> contents,
   results |-> [j \in DOMAIN contents |-> MappedResult(j, contents[j])],
   error |-> error, cached |-> FALSE]

\* runWebSearch line 266: {...cached.value, cached: true}
CachedPayload(entry) == [entry.value EXCEPT !.cached = TRUE]

\* A shuffle that may repeat an instance and leave out another.
ShufflesWithRepeats == [1..Cardinality(Instances) -> Instances]

\* The shuffled copies of the pool, line 132.
Shuffles ==
  {o \in [1..Cardinality(Instances) -> Instances] : \A i \in Instances : \E j \in DOMAIN o : o[j] = i}

\* A runWebSearch call: in searchWithSearXNG (pc "provider") it holds the
\* shuffled pool and the position of the instance being asked; once that has
\* returned (pc "jina") it holds searchResult: the instance and its results,
\* and i remembers how many instances were asked.
IdleSearch == [pc |-> "idle", req |-> <<>>, order |-> <<>>, i |-> 0,
               instance |-> "", results |-> <<>>, contents |-> <<>>]

GoneSearch == [IdleSearch EXCEPT !.pc = "gone"]

FreeSearches == {c \in 1..MaxSearches : searches[c] = IdleSearch}

SearchSlot == CHOOSE c \in FreeSearches : \A u \in FreeSearches : c <= u

\* A result loop that calls the content extraction for its first result at
\* most and passes over all the others.
SkipAllButFirst(results, contents, fetch) ==
  IF contents = <<>> /\ results # <<>> /\ fetch /\ results[1]
    THEN contents
    ELSE contents \o [k \in 1..(Len(results) - Len(contents)) |-> FALSE]

\* The result loop of lines 295-317 from the first unprocessed result on, as
\* far as it runs without a call of the content extraction: a result without
\* url, or any result when fetchContent is false, gets no content.
RECURSIVE SkipUnfetched(_, _, _)
SkipUnfetched(results, contents, fetch) ==
  IF Len(contents) < Len(results) /\ ~(fetch /\ results[Len(contents) + 1])
    THEN SkipUnfetched(results, Append(contents, FALSE), fetch)
    ELSE contents

Accepting == {i \in Listening : servers[i].wsCloses = 0}

\* ----------------------------------------------- the functions of the tool
\* A JavaScript value given where a number is expected: a finite number,
\* counted in halves (h = 5 is 2.5), or undefined, NaN, Infinity, -Infinity
\* or a string.
Num(h) == [kind |-> "number", h |-> h]

NotNum(kind) == [kind |-> kind, h |-> 0]

JsValues == {Num(h) : h \in -2..MaxHalves}
              \cup {NotNum(k) : k \in {"undefined", "NaN", "Infinity", "-Infinity", "string"}}

\* typeof v === "number"
IsNumber(v) == v.kind \in {"number", "NaN", "Infinity", "-Infinity"}

\* A text of len characters, the digits in turn, with a space at position
\* space if that is not 0.
Text(len, space) ==
  [i \in 1..len |-> IF i = space THEN " " ELSE ToString(i % 10)]

\* "\n...[content truncated]"
TruncationMarker ==
  <<"\n", ".", ".", ".", "[", "c", "o", "n", "t", "e", "n", "t", " ",
    "t", "r", "u", "n", "c", "a", "t", "e", "d", "]">>

\* The call of one function: fn names it, x and y are its number arguments,
\* s its text, n its whole-number argument and b its flag.
Call(fn, x, y, s, n, b) == [fn |-> fn, x |-> x, y |-> y, s |-> s, n |-> n, b |-> b]

NoInput == Call("none", NotNum("undefined"), NotNum("undefined"), <<>>, 0, FALSE)

\* Queries that differ in letter case, in white space and in punctuation, and
\* the requests made with them.
KeyQueries == {<<"a", "b">>, <<" ", "a", "b">>, <<"a", " ", "b">>, <<"A", " ", " ", "b">>,
               <<"a", "_", "b">>, <<"a", "!", "b">>}

KeyRequests == [query : KeyQueries, count : {2, 3}, language : Languages, fetchContent : BOOLEAN]

\* What a call returned: ok is FALSE when it threw.
Returned(ok, n, m, s) == [ok |-> ok, n |-> n, m |-> m, s |-> s]

NoOutput == Returned(FALSE, -1, -1, <<"none">>)

\* parallel() before it is called, lines 192-193: no task started, executing
\* empty. A task is the number of its place in `tasks`; index is the place
\* of the task started last.
NoPar == [pc |-> "idle", index |-> 0, executing |-> <<>>, running |-> {}]

ToolInputs ==
  {Call("timeout", x, NotNum("undefined"), <<>>, 0, FALSE) : x \in JsValues}
    \cup {Call("parallel", NotNum("undefined"), NotNum("undefined"), <<>>, c, FALSE) : c \in {1, 2}}
    \cup {Call("key", NotNum("undefined"), NotNum("undefined"), r.query, r.count, r.fetchContent) :
             r \in KeyRequests}
    \cup {Call("count", x, y, <<>>, 0, FALSE) :
             x \in {v \in JsValues : v.kind # "number" \/ v.h <= 2 * MAX_SEARCH_COUNT + 3},
             y \in {NotNum("undefined"), Num(6), Num(40)}}
    \cup {Call("extract", NotNum("undefined"), NotNum("undefined"), Text(len, 0), 0, FALSE) :
             len \in {0, 1} \cup (MAX_CONTENT_LENGTH - 1)..(MAX_CONTENT_LENGTH + 2)
                           \cup {MAX_CONTENT_LENGTH + Len(TruncationMarker) + 1}}
    \cup {Call("truncateContent", NotNum("undefined"), NotNum("undefined"), Text(len, space), n,
                FALSE) :
             len \in 0..MaxTextLen, space \in 0..MaxTextLen, n \in 0..MaxTextLen}

\* The state after construction; K holds the keys the cache will be asked for.
Constructed(K) ==
  /\ browserEnabled \in BOOLEAN
  /\ httpServer = 0
  /\ wsServer = 0
  /\ browserService = 0
  /\ isRunning = FALSE
  /\ servers = <<>>
  /\ svcs = <<>>
  /\ browsers = <<>>
  /\ conns = {}
  /\ tasks = [t \in 1..MaxCalls |-> Idle]
  /\ done = NoDone
  /\ now = 0
  /\ searchCache = [k \in K |-> NoEntry]
  /\ timers = {}
  /\ par = NoPar
  /\ searches = [c \in 1..MaxSearches |-> IdleSearch]

Init == Constructed(Keys) /\ input = NoInput /\ output = NoOutput

\* start() lines 73-161 and the listen() call of line 165.
Start ==
  /\ Ready
  /\ UNCHANGED <<toolVars, searchVars, browserEnabled, browsers, conns, isRunning>>
  /\ IF StartAlreadyRunning
       THEN /\ done' = Done("start", 0, NoId, "", "noop", "sync", 0, <<>>)
            /\ UNCHANGED <<httpServer, wsServer, browserService, servers, svcs, tasks>>
       ELSE /\ HasSlot
            /\ svcs' = IF browserEnabled THEN Append(svcs, NewService) ELSE svcs
            /\ browserService' = IF browserEnabled THEN Len(svcs) + 1 ELSE browserService
            /\ servers' = Append(servers, [state |-> "created", wsCloses |-> 0, httpCloses |-> 0])
            /\ httpServer' = Len(servers) + 1
            /\ wsServer' = Len(servers) + 1
            /\ Spawn(Task("start", 0, NoId, "", "listen", 0, "", 0, Len(servers) + 1, NoKids))
            /\ done' = NoDone

\* listen callback, lines 165-170: the port was free.
ListenOk ==
  /\ Ready
  /\ \E t \in 1..MaxCalls :
    /\ tasks[t].pc = "listen"
    /\ servers[tasks[t].srv].state = "created"
    /\ Listening = {}
    /\ servers' = [servers EXCEPT ![tasks[t].srv].state = "listening"]
    /\ isRunning' = TRUE
    /\ Retire(t)
    /\ done' = Done("start", 0, NoId, "", "ok", "async", 0, <<>>)
    /\ UNCHANGED <<toolVars, searchVars, browserEnabled, httpServer, wsServer, browserService, svcs, browsers, conns>>

\* "error" event, lines 172-175: the bind failed and start() rejects.
ListenError ==
  /\ Ready
  /\ \E t \in 1..MaxCalls :
    /\ tasks[t].pc = "listen"
    /\ servers[tasks[t].srv].state = "created"
    /\ servers' = [servers EXCEPT ![tasks[t].srv].state = "error"]
    /\ Retire(t)
    /\ done' = Done("start", 0, NoId, "", "throw", "async", 0, <<>>)
    /\ UNCHANGED <<toolVars, searchVars, browserEnabled, httpServer, wsServer, browserService, isRunning,
                   svcs, browsers, conns>>

\* wsServer.on("connection"), lines 131-161.
ConnectOf(C) ==
  /\ Ready
  /\ \E c \in C \ conns :
    /\ Accepting # {}
    /\ \A t \in 1..MaxCalls : tasks[t].conn # c
    /\ conns' = conns \cup {c}
    /\ done' = Done("connect", c, NoId, "", "ok", "sync", 0, SendWelcome)
    /\ UNCHANGED <<toolVars, searchVars, browserEnabled, httpServer, wsServer, browserService, isRunning,
                   servers, svcs, browsers, tasks>>

Connect == ConnectOf(Conns)

ConnectAny == ConnectOf(TwoConns)

\* A close handler that drops the sessions of the manager.
DisconnectDropsSessions ==
  /\ Ready
  /\ \E c \in conns :
    /\ conns' = conns \ {c}
    /\ svcs' = IF browserService = 0 THEN svcs ELSE ClearSessions(svcs, browserService)
    /\ done' = Done("disconnect", c, NoId, "", "ok", "sync", 0, <<>>)
    /\ UNCHANGED <<toolVars, searchVars, browserEnabled, gatewayVars, browsers, tasks>>

\* ws.on("close"), lines 148-150: the client is gone; the handler logs. What
\* a call of this connection sends later goes to a closed socket.
Disconnect ==
  /\ Ready
  /\ \E c \in conns :
    /\ conns' = conns \ {c}
    /\ done' = Done("disconnect", c, NoId, "", "ok", "sync", 0, <<>>)
    /\ UNCHANGED <<toolVars, searchVars, browserEnabled, gatewayVars, svcs, browsers, tasks>>

\* stop(), lines 305-332, up to the await of shutdown() or, when that
\* returns without suspending on I/O, to the end.
Stop ==
  /\ Ready
  /\ UNCHANGED <<toolVars, searchVars, browserEnabled, browsers, conns>>
  /\ IF StopNotRunning
       THEN /\ done' = Done("stop", 0, NoId, "", "noop", "sync", 0, <<>>)
            /\ UNCHANGED <<httpServer, wsServer, browserService, isRunning, servers, svcs, tasks>>
       ELSE IF browserService = 0 \/ AlreadyShuttingDown(browserService)
         THEN /\ StopTail
              /\ done' = Done("stop", 0, NoId, "", "ok", "sync", browserService, <<>>)
              /\ UNCHANGED <<svcs, tasks>>
         ELSE IF Settled(KidsFor(browserService))
           THEN /\ svcs' = ClearSessions(ShutdownBegin(browserService), browserService)
                /\ StopTail
                /\ done' = Done("stop", 0, NoId, "", "ok", "sync", browserService, <<>>)
                /\ UNCHANGED tasks
           ELSE /\ HasSlot
                /\ svcs' = ShutdownBegin(browserService)
                /\ Spawn(Task("stop", 0, NoId, "", "await", browserService, "", 0, 0,
                              KidsFor(browserService)))
                /\ done' = NoDone
                /\ UNCHANGED gatewayVars

\* BrowserService.shutdown() called on a manager the caller holds, lines 335-351.
Shutdown ==
  /\ Ready
  /\ \E v \in Services :
    /\ UNCHANGED <<toolVars, searchVars, browserEnabled, browsers, conns, gatewayVars>>
    /\ IF AlreadyShuttingDown(v)
         THEN /\ done' = Done("shutdown", 0, NoId, "", "noop", "sync", v, <<>>)
              /\ UNCHANGED <<svcs, tasks>>
         ELSE IF Settled(KidsFor(v))
           THEN /\ svcs' = ClearSessions(ShutdownBegin(v), v)
                /\ done' = Done("shutdown", 0, NoId, "", "ok", "sync", v, <<>>)
                /\ UNCHANGED tasks
           ELSE /\ HasSlot
                /\ svcs' = ShutdownBegin(v)
                /\ Spawn(Task("shutdown", 0, NoId, "", "await", v, "", 0, 0, KidsFor(v)))
                /\ done' = NoDone

\* ------------------------------------------------ inbound frames, lines 135-146
\* A frame that is not an object. "notjson": JSON.parse throws inside the try
\* and the catch answers. "null": JSON.parse succeeds, the destructuring in
\* the async handler throws, the returned promise rejects outside the try and
\* nothing is sent. "scalar" (number, string, boolean, array): destructuring
\* yields undefined fields and the default branch answers.
MalformedReply(kind) ==
  CASE kind = "notjson" -> SendError(NoId, "Invalid message format")
    [] kind = "null" -> <<>>
    [] kind = "scalar" -> SendError(NoId, "Unknown message type")

RecvMalformed ==
  /\ Ready
  /\ \E c \in conns, kind \in {"notjson", "null", "scalar"} :
    /\ done' = Done("malformed", c, NoId, kind,
                    IF kind = "null" THEN "rejected" ELSE "ok", "sync", 0,
                    MalformedReply(kind))
    /\ UNCHANGED <<toolVars, searchVars, browserEnabled, gatewayVars, svcs, browsers, conns, tasks>>

\* case "ping", lines 186-188.
RecvPing ==
  /\ Ready
  /\ \E c \in conns, mid \in MsgIds :
    /\ done' = Done("ping", c, mid, "", "ok", "sync", 0, SendPong(mid))
    /\ UNCHANGED <<toolVars, searchVars, browserEnabled, gatewayVars, svcs, browsers, conns, tasks>>

\* A connection that takes up no frame while a handler of it is suspended.
RecvUnknownInTurn ==
  /\ Ready
  /\ \E c \in conns, mid \in MsgIds :
    /\ \A t \in 1..MaxCalls : tasks[t].conn # c
    /\ done' = Done("unknown", c, mid, "", "ok", "sync", 0,
                    SendError(mid, "Unknown message type"))
    /\ UNCHANGED <<toolVars, searchVars, browserEnabled, gatewayVars, svcs, browsers, conns, tasks>>

\* default branch, lines 293-298.
RecvUnknown ==
  /\ Ready
  /\ \E c \in conns, mid \in MsgIds :
    /\ done' = Done("unknown", c, mid, "", "ok", "sync", 0,
                    SendError(mid, "Unknown message type"))
    /\ UNCHANGED <<toolVars, searchVars, browserEnabled, gatewayVars, svcs, browsers, conns, tasks>>

\* A call that answers in the turn it arrived in.
Immediate(op, c, mid, arg, result, v, sent) ==
  /\ done' = Done(op, c, mid, arg, result, "sync", v, Answer(op, sent))
  /\ UNCHANGED <<svcs, tasks>>

\* createSession lines 166-173, entered from case "browser.create" (lines
\* 190-200, c > 0, no id: arg = "") or called on the manager with an id
\* (c = 0; without id it runs as from the gateway).
\* The generated id is Date.now() and Math.random() and is not compared with
\* the tracked ids: the model lets any id come out, a tracked one included,
\* which the program does with negligible probability only.
\* A create that goes on without a manager.
CreateCallUnguarded(op, c, mid, arg, v) ==
  \E id \in (IF arg = "" THEN SessionIds ELSE {arg}) :
    /\ HasSlot
    /\ Spawn(Task(op, c, mid, arg, "launch", v, id, 0, 0, NoKids))
    /\ done' = NoDone
    /\ UNCHANGED svcs

CreateCall(op, c, mid, arg, v) ==
  IF v = 0
    THEN Immediate(op, c, mid, arg, "error", v, SendError(mid, "Browser service is disabled"))
  ELSE IF CreateRejected(v)
    THEN Immediate(op, c, mid, arg, "error", v, SendError(mid, "Error: BrowserService is shutting down"))
  ELSE \E id \in (IF arg = "" THEN SessionIds ELSE {arg}) :
         /\ HasSlot
         /\ Spawn(Task(op, c, mid, arg, "launch", v, id, 0, 0, NoKids))
         /\ done' = NoDone
         /\ UNCHANGED svcs

RecvCreateFrom(C) ==
  /\ Ready
  /\ \E c \in conns \cap C, mid \in MsgIds :
    /\ CreateCall("browser.create", c, mid, "", browserService)
    /\ UNCHANGED <<toolVars, searchVars, browserEnabled, gatewayVars, browsers, conns>>

RecvCreate == RecvCreateFrom(Conns)

RecvCreateFirst == RecvCreateFrom({1})

CreateSession ==
  /\ Ready
  /\ \E v \in Services, arg \in SessionIds :
    /\ CreateCall("createSession", 0, NoId, arg, v)
    /\ UNCHANGED <<toolVars, searchVars, browserEnabled, gatewayVars, browsers, conns>>

\* createSession line 187: puppeteer.launch settles.
Launch ==
  /\ Ready
  /\ \E t \in 1..MaxCalls, ok \in BOOLEAN :
    /\ tasks[t].pc = "launch"
    /\ IF ok
         THEN /\ browsers' = Append(browsers, [id |-> tasks[t].sid, running |-> TRUE])
              /\ tasks' = [tasks EXCEPT ![t].pc = "setup", ![t].h = Len(browsers) + 1]
              /\ done' = NoDone
         ELSE /\ Retire(t)
              /\ done' = Done(tasks[t].op, tasks[t].conn, tasks[t].mid, tasks[t].arg, "error",
                              "async", tasks[t].svc,
                              Answer(tasks[t].op, SendError(tasks[t].mid, "Error: launch")))
              /\ UNCHANGED browsers
    /\ UNCHANGED <<toolVars, searchVars, browserEnabled, gatewayVars, svcs, conns>>

\* createSession lines 188-211: context, page and user agent are set up, then
\* the session is stored under its id; a throw leaves the browser running.
SetupSession ==
  /\ Ready
  /\ \E t \in 1..MaxCalls, ok \in BOOLEAN :
    /\ tasks[t].pc = "setup"
    /\ Retire(t)
    /\ IF ok
         THEN /\ svcs' = SetSession(svcs, tasks[t].svc, tasks[t].sid, tasks[t].h)
              /\ done' = Done(tasks[t].op, tasks[t].conn, tasks[t].mid, tasks[t].arg, "ok",
                              "async", tasks[t].svc,
                              Answer(tasks[t].op, SendCreated(tasks[t].mid, tasks[t].sid)))
         ELSE /\ done' = Done(tasks[t].op, tasks[t].conn, tasks[t].mid, tasks[t].arg, "error",
                              "async", tasks[t].svc,
                              Answer(tasks[t].op, SendError(tasks[t].mid, "Error: setup")))
              /\ UNCHANGED svcs
    /\ UNCHANGED <<toolVars, searchVars, browserEnabled, gatewayVars, browsers, conns>>

\* A page operation that does not look its session up.
PageCallUnchecked(op, c, mid, p, v, pc) ==
  IF v = 0
    THEN Immediate(op, c, mid, p, "error", v, SendError(mid, "Browser service is disabled"))
  ELSE IF p = NoPayload
    THEN Immediate(op, c, mid, p, "error", v, SendError(mid, "TypeError"))
  ELSE /\ HasSlot
       /\ Spawn(Task(op, c, mid, p, pc, v, p, svcs[v].sessions[p], 0, NoKids))
       /\ done' = NoDone
       /\ UNCHANGED svcs

\* navigate lines 239-249 / getTextContent lines 271-276, entered from case
\* "browser.navigate" (lines 215-226) or "browser.content" (lines 241-252).
PageCall(op, c, mid, p, v, pc) ==
  IF v = 0
    THEN Immediate(op, c, mid, p, "error", v, SendError(mid, "Browser service is disabled"))
  ELSE IF p = NoPayload
    THEN Immediate(op, c, mid, p, "error", v, SendError(mid, "TypeError"))
  ELSE IF svcs[v].sessions[p] = 0
    THEN Immediate(op, c, mid, p, "error", v, SendError(mid, "Error: Session not found"))
  ELSE /\ HasSlot
       /\ Spawn(Task(op, c, mid, p, pc, v, p, svcs[v].sessions[p], 0, NoKids))
       /\ done' = NoDone
       /\ UNCHANGED svcs

RecvNavigate ==
  /\ Ready
  /\ \E c \in conns, mid \in MsgIds, p \in Payloads :
    /\ PageCall("browser.navigate", c, mid, p, browserService, "goto")
    /\ UNCHANGED <<toolVars, searchVars, browserEnabled, gatewayVars, browsers, conns>>

RecvContent ==
  /\ Ready
  /\ \E c \in conns, mid \in MsgIds, p \in Payloads :
    /\ PageCall("browser.content", c, mid, p, browserService, "evaluate")
    /\ UNCHANGED <<toolVars, searchVars, browserEnabled, gatewayVars, browsers, conns>>

\* The page operations of the manager's API and the await each one stops at.
DirectPageOps == {"navigate", "getContent", "getTextContent", "screenshot"}

AwaitOf(op) ==
  CASE op = "navigate" -> "goto"
    [] op = "getContent" -> "content"
    [] op = "getTextContent" -> "evaluate"
    [] op = "screenshot" -> "screenshot"

\* navigate, getContent, getTextContent or screenshot called on the manager,
\* lines 235-297.
PageOp ==
  /\ Ready
  /\ \E v \in Services, op \in DirectPageOps, s \in SessionIds :
    /\ PageCall(op, 0, NoId, s, v, AwaitOf(op))
    /\ UNCHANGED <<toolVars, searchVars, browserEnabled, gatewayVars, browsers, conns>>

\* A navigate that closes its session when page.goto fails.
GotoSettlesClosing ==
  /\ Ready
  /\ \E t \in 1..MaxCalls, ok \in BOOLEAN :
    /\ tasks[t].pc = "goto"
    /\ Retire(t)
    /\ done' = Done(tasks[t].op, tasks[t].conn, tasks[t].mid, tasks[t].arg,
                    IF ok THEN "ok" ELSE "error", "async", tasks[t].svc,
                    Answer(tasks[t].op, IF ok THEN SendNavigated(tasks[t].mid)
                                        ELSE SendError(tasks[t].mid, "Error: navigation")))
    /\ svcs' = IF ok THEN svcs ELSE DeleteSession(svcs, tasks[t].svc, tasks[t].sid)
    /\ UNCHANGED <<toolVars, searchVars, browserEnabled, gatewayVars, browsers, conns>>

\* page.goto settles (line 249); lines 227-237 answer.
GotoSettles ==
  /\ Ready
  /\ \E t \in 1..MaxCalls, ok \in BOOLEAN :
    /\ tasks[t].pc = "goto"
    /\ Retire(t)
    /\ done' = Done(tasks[t].op, tasks[t].conn, tasks[t].mid, tasks[t].arg,
                    IF ok THEN "ok" ELSE "error", "async", tasks[t].svc,
                    Answer(tasks[t].op, IF ok THEN SendNavigated(tasks[t].mid)
                                        ELSE SendError(tasks[t].mid, "Error: navigation")))
    /\ UNCHANGED <<toolVars, searchVars, browserEnabled, gatewayVars, svcs, browsers, conns>>

\* page.evaluate settles (line 276); lines 253-263 answer.
EvaluateSettles ==
  /\ Ready
  /\ \E t \in 1..MaxCalls, ok \in BOOLEAN, len \in PageTextLens :
    /\ tasks[t].pc = "evaluate"
    /\ Retire(t)
    /\ done' = Done(tasks[t].op, tasks[t].conn, tasks[t].mid, tasks[t].arg,
                    IF ok THEN "ok" ELSE "error", "async", tasks[t].svc,
                    Answer(tasks[t].op, IF ok THEN SendContent(tasks[t].mid, len)
                                        ELSE SendError(tasks[t].mid, "Error: evaluate")))
    /\ UNCHANGED <<toolVars, searchVars, browserEnabled, gatewayVars, svcs, browsers, conns>>

\* page.content() (line 264) or page.screenshot() (lines 291-295) settles and
\* the manager's caller gets the value or the error.
PageReadSettles ==
  /\ Ready
  /\ \E t \in 1..MaxCalls, ok \in BOOLEAN :
    /\ tasks[t].pc \in {"content", "screenshot"}
    /\ Retire(t)
    /\ done' = Done(tasks[t].op, tasks[t].conn, tasks[t].mid, tasks[t].arg,
                    IF ok THEN "ok" ELSE "error", "async", tasks[t].svc, <<>>)
    /\ UNCHANGED <<toolVars, searchVars, browserEnabled, gatewayVars, svcs, browsers, conns>>

\* closeSession that throws on an untracked id, as navigate does.
CloseCallStrict(op, c, mid, p, v) ==
  IF v = 0
    THEN Immediate(op, c, mid, p, "error", v, SendError(mid, "Browser service is disabled"))
  ELSE IF p = NoPayload
    THEN Immediate(op, c, mid, p, "error", v, SendError(mid, "TypeError"))
  ELSE IF Settled(OneKid(v, p))
    THEN Immediate(op, c, mid, p, "error", v, SendError(mid, "Error: Session not found"))
  ELSE /\ HasSlot
       /\ Spawn(Task(op, c, mid, p, "await", v, p, 0, 0, OneKid(v, p)))
       /\ done' = NoDone
       /\ UNCHANGED svcs

\* closeSession lines 314-323, entered from case "browser.close" (lines
\* 267-278, c > 0) or called on the manager (c = 0).
CloseCall(op, c, mid, p, v) ==
  IF v = 0
    THEN Immediate(op, c, mid, p, "error", v, SendError(mid, "Browser service is disabled"))
  ELSE IF p = NoPayload
    THEN Immediate(op, c, mid, p, "error", v, SendError(mid, "TypeError"))
  ELSE IF Settled(OneKid(v, p))
    THEN Immediate(op, c, mid, p, "ok", v, SendClosed(mid))
  ELSE /\ HasSlot
       /\ Spawn(Task(op, c, mid, p, "await", v, p, 0, 0, OneKid(v, p)))
       /\ done' = NoDone
       /\ UNCHANGED svcs

RecvClose ==
  /\ Ready
  /\ \E c \in conns, mid \in MsgIds, p \in Payloads :
    /\ CloseCall("browser.close", c, mid, p, browserService)
    /\ UNCHANGED <<toolVars, searchVars, browserEnabled, gatewayVars, browsers, conns>>

CloseSession ==
  /\ Ready
  /\ \E v \in Services, s \in SessionIds :
    /\ CloseCall("closeSession", 0, NoId, s, v)
    /\ UNCHANGED <<toolVars, searchVars, browserEnabled, gatewayVars, browsers, conns>>

\* closeSession lines 325-329 for id s of call t, with the browsers as br:
\* the entry is deleted; when that was the call's last pending close, the
\* caller resumes: shutdown clears the map (line 348) and stop() goes on
\* (lines 315-330), "browser.close" answers (lines 279-283).
CloseFinally(t, s, br) ==
  LET tk == tasks[t]
      sv1 == DeleteSession(svcs, tk.svc, s)
      kids1 == [tk.kids EXCEPT ![s].pc = "done"]
  IN /\ browsers' = br
     /\ IF ~Settled(kids1)
          THEN /\ svcs' = sv1
               /\ tasks' = [tasks EXCEPT ![t].kids = kids1]
               /\ done' = NoDone
               /\ UNCHANGED gatewayVars
          ELSE /\ Retire(t)
               /\ done' = Done(tk.op, tk.conn, tk.mid, tk.arg, "ok", "async", tk.svc,
                               Answer(tk.op, SendClosed(tk.mid)))
               /\ svcs' = IF tk.op \in {"stop", "shutdown"}
                            THEN ClearSessions(sv1, tk.svc) ELSE sv1
               /\ IF tk.op = "stop" THEN StopTail ELSE UNCHANGED gatewayVars

\* session.context.close() settles (line 323); a throw skips to the finally.
CloseContext ==
  /\ Ready
  /\ \E t \in 1..MaxCalls, s \in SessionIds, ok \in BOOLEAN :
    /\ tasks[t].kids[s].pc = "ctx"
    /\ IF ok
         THEN /\ tasks' = [tasks EXCEPT ![t].kids[s].pc = "browser"]
              /\ done' = NoDone
              /\ UNCHANGED <<gatewayVars, svcs, browsers>>
         ELSE CloseFinally(t, s, browsers)
    /\ UNCHANGED <<toolVars, searchVars, browserEnabled, conns>>

\* session.browser.close() settles (line 324).
CloseBrowser ==
  /\ Ready
  /\ \E t \in 1..MaxCalls, s \in SessionIds, ok \in BOOLEAN :
    /\ tasks[t].kids[s].pc = "browser"
    /\ CloseFinally(t, s, IF ok THEN [browsers EXCEPT ![tasks[t].kids[s].h].running = FALSE]
                                ELSE browsers)
    /\ UNCHANGED <<toolVars, searchVars, browserEnabled, conns>>

\* The event-loop turn ends; what it sent is on the wire.
TurnEnds ==
  /\ done # NoDone
  /\ done' = NoDone
  /\ UNCHANGED <<toolVars, searchVars, browserEnabled, gatewayVars, svcs, browsers, conns, tasks>>

Next ==
  \/ TurnEnds
  \/ Start
  \/ ListenOk
  \/ ListenError
  \/ Connect
  \/ Stop
  \/ Shutdown
  \/ RecvMalformed
  \/ RecvPing
  \/ RecvUnknown
  \/ RecvCreate
  \/ CreateSession
  \/ Launch
  \/ SetupSession
  \/ RecvNavigate
  \/ RecvContent
  \/ GotoSettles
  \/ EvaluateSettles
  \/ RecvClose
  \/ CloseSession
  \/ CloseContext
  \/ CloseBrowser

Spec == Init /\ [][Next]_vars

\* The gateway with two clients that come and go; the first one creates the
\* sessions, both use them.
ConnNext ==
  \/ TurnEnds
  \/ Start
  \/ ListenOk
  \/ ConnectAny
  \/ Disconnect
  \/ RecvCreateFirst
  \/ Launch
  \/ SetupSession
  \/ RecvNavigate
  \/ RecvContent
  \/ GotoSettles
  \/ EvaluateSettles
  \/ RecvClose
  \/ CloseContext
  \/ CloseBrowser

ConnInit == Init /\ browserEnabled

ConnSpec == ConnInit /\ [][ConnNext]_vars

\* The gateway process when the code that holds the manager also calls its
\* page operations (navigate, getContent, getTextContent, screenshot).
ApiNext ==
  \/ Next
  \/ PageOp
  \/ PageReadSettles

ApiSpec == Init /\ [][ApiNext]_vars

\* The same program when every context.close() and browser.close() that was
\* called eventually returns or throws, however many other events arrive in
\* between, and every event-loop turn ends.
FairSpec ==
  /\ Spec
  /\ WF_vars(TurnEnds)
  /\ SF_vars(CloseContext)
  /\ SF_vars(CloseBrowser)

\* ------------------------------------------------ search pipeline steps
\* A cache that never has the entry asked for.
ReadCacheMiss(key) == NoEntry

\* readCache, web-shared.ts lines 28-37: the entry under key, or null.
ReadCache(key) == searchCache[key]

\* A cleanup that does not look at the age of the entry it finds.
ExpiredWhatever(entry) == TRUE

\* writeCache line 53: Date.now() - entry.timestamp >= ttlMs
Expired(entry) == now - entry.timestamp >= CacheTtl

\* isCacheValid, web-shared.ts lines 59-67
isCacheValid(entry) == entry # NoEntry /\ now - entry.timestamp < CacheTtl

\* writeCache, web-shared.ts lines 39-57: the entry is set and its cleanup
\* scheduled for ttlMs later.
WriteCache(key, payload) ==
  /\ searchCache' = [searchCache EXCEPT ![key] = [value |-> payload, timestamp |-> now]]
  /\ timers' = timers \cup {[key |-> key, due |-> now + CacheTtl]}

\* A return that leaves the cache as it is.
FinishUncached(c, payload) ==
  /\ UNCHANGED <<searchCache, timers>>
  /\ searches' = [searches EXCEPT ![c] = GoneSearch]
  /\ done' = Done("web_search", 0, NoId, searches[c].req, "ok", "async", 0, <<payload>>)

\* runWebSearch lines 288-289 and 334-335: call c caches its payload and
\* returns it.
Finish(c, payload) ==
  /\ WriteCache(CacheKey(searches[c].req), payload)
  /\ searches' = [searches EXCEPT ![c] = GoneSearch]
  /\ done' = Done("web_search", 0, NoId, searches[c].req, "ok", "async", 0, <<payload>>)

\* execute (lines 385-402) and runWebSearch up to its first await: a cached
\* entry is returned at once (lines 264-267), otherwise the pool is shuffled
\* and the first instance asked (lines 132-151).
ExecuteOf(R) ==
  /\ Ready
  /\ \E r \in R :
       LET cached == ReadCache(CacheKey(r))
       IN IF cached # NoEntry
            THEN /\ done' = Done("web_search", 0, NoId, r, "ok", "sync", 0,
                                 <<CachedPayload(cached)>>)
                 /\ UNCHANGED searches
            ELSE /\ FreeSearches # {}
                 /\ \E o \in Shuffles :
                      searches' = [searches EXCEPT ![SearchSlot] =
                        [pc |-> "provider", req |-> r, order |-> o, i |-> 1,
                         instance |-> "", results |-> <<>>, contents |-> <<>>]]
                 /\ done' = NoDone
  /\ UNCHANGED <<now, searchCache, timers, browserEnabled, browserVars, toolVars>>

Execute == ExecuteOf(Requests)

ExecuteLong == ExecuteOf(LongRequests)

ExecuteCounts == ExecuteOf(CountRequests)

\* The request to instance order[i] settles (lines 144-170): with ok and a
\* non-empty data.results the search goes on with these results, cut to
\* count; otherwise (non-2xx, throw, timeout, no results) the next instance is
\* asked, or, after the last one, the no-results payload returned (lines
\* 279-290).
ProviderSettles ==
  /\ Ready
  /\ \E c \in 1..MaxSearches, data \in ResultLists, ok \in BOOLEAN :
       LET sc == searches[c]
           results == SubSeq(data, 1, Min(Len(data), sc.req.count))
           contents == SkipUnfetched(results, <<>>, sc.req.fetchContent)
       IN /\ sc.pc = "provider"
          /\ IF ok /\ data # <<>>
               THEN IF Len(contents) < Len(results)
                      THEN /\ searches' = [searches EXCEPT ![c] =
                                [pc |-> "jina", req |-> sc.req, order |-> <<>>, i |-> sc.i,
                                 instance |-> sc.order[sc.i], results |-> results,
                                 contents |-> contents]]
                           /\ done' = NoDone
                           /\ UNCHANGED <<searchCache, timers>>
                      ELSE Finish(c, Payload(sc.req, sc.order[sc.i], contents, ""))
               ELSE IF sc.i < Len(sc.order)
                      THEN /\ searches' = [searches EXCEPT ![c].i = sc.i + 1]
                           /\ done' = NoDone
                           /\ UNCHANGED <<searchCache, timers>>
                      ELSE Finish(c, Payload(sc.req, "", <<>>,
                                             "No results found from any SearXNG instance"))
  /\ UNCHANGED <<now, browserEnabled, browserVars, toolVars>>

\* fetchWithJinaReader settles for the result at hand (lines 304-307): the
\* result has content when the call gave a non-empty text; the loop goes on
\* to the next result to fetch, or to the end (lines 319-335).
JinaSettles ==
  /\ Ready
  /\ \E c \in 1..MaxSearches, ok \in BOOLEAN :
       LET sc == searches[c]
           contents == SkipUnfetched(sc.results, Append(sc.contents, ok), sc.req.fetchContent)
       IN /\ sc.pc = "jina"
          /\ IF Len(contents) < Len(sc.results)
               THEN /\ searches' = [searches EXCEPT ![c].contents = contents]
                    /\ done' = NoDone
                    /\ UNCHANGED <<searchCache, timers>>
               ELSE Finish(c, Payload(sc.req, sc.instance, contents, ""))
  /\ UNCHANGED <<now, browserEnabled, browserVars, toolVars>>

\* The callback of writeCache's setTimeout runs (lines 51-56), at its due
\* time or later; `done` tells what it found.
CleanupFires ==
  /\ Ready
  /\ \E tm \in timers :
       LET entry == ReadCache(tm.key)
       IN /\ now >= tm.due
          /\ timers' = timers \ {tm}
          /\ IF entry # NoEntry /\ Expired(entry)
               THEN /\ searchCache' = [searchCache EXCEPT ![tm.key] = NoEntry]
                    /\ done' = Done("cleanup", 0, NoId, tm.key, "removed", "async", 0, <<>>)
               ELSE /\ UNCHANGED searchCache
                    /\ done' = Done("cleanup", 0, NoId, tm.key,
                                    IF entry = NoEntry THEN "absent" ELSE "kept",
                                    "async", 0, <<>>)
  /\ UNCHANGED <<now, searches, browserEnabled, browserVars, toolVars>>

\* Time passes.
Tick ==
  /\ Ready
  /\ now < MaxNow
  /\ now' = now + 1
  /\ UNCHANGED <<done, searchCache, timers, searches, browserEnabled, browserVars, toolVars>>

SearchNext ==
  \/ TurnEnds
  \/ Execute
  \/ ProviderSettles
  \/ JinaSettles
  \/ CleanupFires
  \/ Tick

\* The process that runs the web_search tool; the gateway's configuration
\* plays no part in it.
SearchInit == Init /\ ~browserEnabled

SearchSpec == SearchInit /\ [][SearchNext]_vars

\* The same process, asked with long queries.
LongNext ==
  \/ TurnEnds
  \/ ExecuteLong
  \/ ProviderSettles
  \/ JinaSettles
  \/ CleanupFires
  \/ Tick

LongInit == Constructed(LongKeys) /\ ~browserEnabled /\ input = NoInput /\ output = NoOutput

LongQuerySpec == LongInit /\ [][LongNext]_vars

\* The same process, asked with one long query and two result counts; no
\* content is asked for, so no extraction runs.
CountNext ==
  \/ TurnEnds
  \/ ExecuteCounts
  \/ ProviderSettles
  \/ CleanupFires
  \/ Tick

CountInit ==
  /\ Constructed({CacheKey(r) : r \in CountRequests})
  /\ ~browserEnabled
  /\ input = NoInput
  /\ output = NoOutput

CountSpec == CountInit /\ [][CountNext]_vars

\* ------------------------------------------- the functions, one at a time
\* web-shared.ts lines 116-130
resolveTimeoutSeconds(configured, defaultValue) ==
  IF configured.kind # "number" THEN defaultValue
  ELSE LET capped == Min(2 * MAX_TIMEOUT_SECONDS, configured.h)
           clamped == IF capped < 2 THEN 2 ELSE capped
       IN clamped \div 2

\* common.ts lines 82-105, without `required` and `default`: what is
\* returned, or ok FALSE for a throw.
readNumberParam(value, integer) ==
  IF value.kind = "undefined" THEN [ok |-> TRUE, value |-> value]
  ELSE IF ~IsNumber(value) THEN [ok |-> FALSE, value |-> value]
  ELSE IF integer /\ ~(value.kind = "number" /\ value.h % 2 = 0)
    THEN [ok |-> FALSE, value |-> value]
    ELSE [ok |-> TRUE, value |-> value]

\* web-search.ts lines 242-246
resolveSearchCount(value, fallback) ==
  LET parsed == IF value.kind = "number" THEN value.h ELSE 2 * fallback
      floored == parsed \div 2
      capped == Min(MAX_SEARCH_COUNT, floored)
  IN IF capped < 1 THEN 1 ELSE capped

\* The return of fetchWithJinaReader for a 2xx answer with this text.
ExtractedWhole(content) == content

\* web-search.ts lines 213-220
Extracted(content) ==
  IF Len(content) > MAX_CONTENT_LENGTH
    THEN SubSeq(content, 1, MAX_CONTENT_LENGTH) \o TruncationMarker
    ELSE content

\* truncated.lastIndexOf(" "), counted from 0; -1 when there is none
LastSpace(str) ==
  LET at == {i \in DOMAIN str : str[i] = " "}
  IN IF at = {} THEN -1 ELSE (CHOOSE i \in at : \A j \in at : j <= i) - 1

\* A truncation that cuts and marks every text.
truncateContentAlways(content, maxLength) ==
  LET availableLength == maxLength - Len(TruncationMarker)
      kept == IF availableLength < 0 THEN 0 ELSE Min(Len(content), availableLength)
  IN SubSeq(content, 1, kept) \o TruncationMarker

\* external-content.ts lines 157-189, with the default options
truncateContent(content, maxLength) ==
  IF Len(content) <= maxLength THEN content
  ELSE LET availableLength == maxLength - Len(TruncationMarker)
           truncated == SubSeq(content, 1, availableLength)
           lastSpace == LastSpace(truncated)
       IN IF availableLength <= 0 THEN SubSeq(content, 1, maxLength)
          ELSE IF 10 * lastSpace > 8 * availableLength
            THEN SubSeq(truncated, 1, lastSpace) \o TruncationMarker
            ELSE truncated \o TruncationMarker

\* execute line 395 and runWebSearch line 306: the timeout of the provider
\* requests (n) and that of the content extraction (m), in seconds.
ResolveTimeouts ==
  /\ input.fn = "timeout"
  /\ output = NoOutput
  /\ LET timeoutSeconds == resolveTimeoutSeconds(input.x, DEFAULT_TIMEOUT_SECONDS)
     IN output' = Returned(TRUE, timeoutSeconds, Min(timeoutSeconds, ExtractionTimeoutCap), <<>>)
  /\ UNCHANGED <<input, par, done, searchVars, browserEnabled, browserVars>>

\* execute lines 388 and 394: the count handed to runWebSearch for
\* args.count = x and search.maxResults = y.
ResolveCount ==
  /\ input.fn = "count"
  /\ output = NoOutput
  /\ LET param == readNumberParam(input.x, TRUE)
         count == IF param.value.kind # "undefined" THEN param.value
                  ELSE IF input.y.kind # "undefined" THEN input.y
                  ELSE Num(2 * DEFAULT_SEARCH_COUNT)
     IN output' = IF param.ok
                    THEN Returned(TRUE, resolveSearchCount(count, DEFAULT_SEARCH_COUNT), 0, <<>>)
                    ELSE Returned(FALSE, 0, 0, <<>>)
  /\ UNCHANGED <<input, par, done, searchVars, browserEnabled, browserVars>>

\* fetchWithJinaReader lines 211-220 for a 2xx answer with the text s.
Extract ==
  /\ input.fn = "extract"
  /\ output = NoOutput
  /\ output' = Returned(TRUE, 0, 0, Extracted(input.s))
  /\ UNCHANGED <<input, par, done, searchVars, browserEnabled, browserVars>>

\* truncateContent(s, n)
Truncate ==
  /\ input.fn = "truncateContent"
  /\ output = NoOutput
  /\ output' = Returned(TRUE, 0, 0, truncateContent(input.s, input.n))
  /\ UNCHANGED <<input, par, done, searchVars, browserEnabled, browserVars>>

\* parallel, lines 209-210: Promise.all(executing) is awaited; it is settled
\* at once when every promise in executing is, and the results are returned.
AwaitAll(p) ==
  IF \A k \in 1..Len(p.executing) : p.executing[k] \notin p.running
    THEN [p EXCEPT !.pc = "done"]
    ELSE [p EXCEPT !.pc = "all"]

RECURSIVE ParallelLoop(_, _)
\* parallel, lines 195-207, from the top of the loop to the next await that
\* has to wait: the next task is started and its promise pushed; with
\* `concurrency` promises in executing Promise.race is awaited, which goes on
\* without a turn of the event loop when one of them is settled already, and
\* then the promise pushed last is spliced out.
ParallelLoop(p, concurrency) ==
  IF p.index = MaxTasks THEN AwaitAll(p)
  ELSE LET index == p.index + 1
           q == [p EXCEPT !.index = index,
                          !.executing = Append(p.executing, index),
                          !.running = p.running \cup {index}]
       IN IF Len(q.executing) >= concurrency
            THEN IF \E k \in 1..Len(q.executing) : q.executing[k] \notin q.running
                   THEN ParallelLoop([q EXCEPT !.executing = p.executing], concurrency)
                   ELSE [q EXCEPT !.pc = "race"]
            ELSE ParallelLoop(q, concurrency)

\* parallel(tasks, concurrency) is called with MaxTasks tasks.
ParallelCalled ==
  /\ input.fn = "parallel"
  /\ par.pc = "idle"
  /\ par' = ParallelLoop(par, input.n)
  /\ UNCHANGED <<input, output, done, searchVars, browserEnabled, browserVars>>

\* A running task resolves (lines 196-198). A parallel() that awaits
\* Promise.race and has the task's promise in executing goes on: it splices
\* out the promise pushed last (lines 203-206) and loops; one that awaits
\* Promise.all returns when that was the last promise in executing.
TaskFinishes ==
  \E k \in par.running :
    LET p == [par EXCEPT !.running = par.running \ {k}]
        current == Len(p.executing)
    IN /\ par' = IF p.pc = "race" /\ \E j \in 1..Len(p.executing) : p.executing[j] = k
                   THEN ParallelLoop([p EXCEPT !.executing = SubSeq(p.executing, 1, current - 1)],
                                     input.n)
                   ELSE IF p.pc = "all" THEN AwaitAll(p) ELSE p
       /\ UNCHANGED <<input, output, done, searchVars, browserEnabled, browserVars>>

\* runWebSearch lines 260-262: the cache key of the request with query s,
\* count n, no language and fetchContent b.
NormalizeKey ==
  /\ input.fn = "key"
  /\ output = NoOutput
  /\ output' = Returned(TRUE, 0, 0, CacheKey([query |-> input.s, count |-> input.n,
                                               language |-> <<>>, fetchContent |-> input.b]))
  /\ UNCHANGED <<input, par, done, searchVars, browserEnabled, browserVars>>

ToolNext ==
  \/ ParallelCalled
  \/ TaskFinishes
  \/ NormalizeKey
  \/ ResolveTimeouts
  \/ ResolveCount
  \/ Extract
  \/ Truncate

ToolInit == Constructed(Keys) /\ ~browserEnabled /\ input \in ToolInputs /\ output = NoOutput

ToolSpec == ToolInit /\ [][ToolNext]_vars

\* =================================================================== claims
CreateOps == {"browser.create", "createSession"}

InFlightCloses(v) ==
  {t \in 1..MaxCalls : tasks[t].svc = v /\ ~Settled(tasks[t].kids)}

\* C1: every frame that decodes to a JSON object gets, when its handler
\* returns, exactly one response, and that response carries the frame's id
\* (none when the frame had none); nothing is sent for it before that.
C1_OneReplySameId ==
  done.op \in FrameOps =>
    /\ Len(done.sent) = 1
    /\ done.sent[1].mid = done.mid

\* C1 witness: a browser.create with id m1 was answered after its browser
\* was launched and set up.
C1_Witness ==
  /\ done.op = "browser.create"
  /\ done.steps = "async"
  /\ done.mid = "m1"
  /\ done.sent = <<Resp("browser.created", "m1", "", done.sent[1].sessionId, 0)>>

\* C2 (as claimed): every frame that is not a well-formed envelope gets
\* exactly one error response.
C2_MalformedAnswered ==
  done.op = "malformed" =>
    /\ Len(done.sent) = 1
    /\ done.sent[1].type = "error"

\* C3 (as claimed): no manager ever tracks more sessions than the configured
\* maximum.
C3_SessionCap ==
  \A v \in Services : Cardinality(Tracked(v)) <= MaxBrowserSessions

\* C5 (as claimed): createSession(id) with id tracked leaves the entry of id
\* as it was.
C5_NoSilentReuse ==
  [][\A s \in SessionIds :
       (/\ done'.op = "createSession"
        /\ done'.arg = s
        /\ svcs[done'.svc].sessions[s] # 0)
       => svcs'[done'.svc].sessions[s] = svcs[done'.svc].sessions[s]]_vars

\* A browser.close frame naming session id s arrives while s is tracked by no
\* manager the gateway holds, and is answered in this step.
CloseOfUnknown(s) ==
  /\ done = NoDone
  /\ done'.op = "browser.close"
  /\ done'.steps = "sync"
  /\ done'.arg = s
  /\ (browserService = 0 \/ svcs[browserService].sessions[s] = 0)

ClosedReply ==
  /\ Len(done'.sent) = 1
  /\ done'.sent[1].type = "browser.closed"
  /\ done'.sent[1].mid = done'.mid

\* C6 (as claimed): in every gateway state a browser.close naming an unknown
\* or already closed session id is answered browser.closed and changes no
\* tracked session.
C6_CloseUnknownAlways ==
  [][\A s \in SessionIds : CloseOfUnknown(s) => (ClosedReply /\ svcs' = svcs)]_vars

\* C6 (amended): the same, in every gateway state that holds a browser
\* service; without one the answer is the error "Browser service is disabled".
C6_CloseUnknown ==
  [][\A s \in SessionIds : CloseOfUnknown(s) =>
       /\ svcs' = svcs
       /\ IF browserService # 0
            THEN ClosedReply
            ELSE done'.sent = <<Resp("error", done'.mid, "Browser service is disabled", "", 0)>>]_vars

\* C6 witness: a browser.close of an untracked id was answered browser.closed
\* by a gateway holding a browser service.
C6_Witness ==
  /\ done.op = "browser.close"
  /\ done.steps = "sync"
  /\ done.arg \in SessionIds
  /\ done.svc # 0
  /\ done.sent[1].type = "browser.closed"

\* C7 (as claimed): when a shutdown() call returns, its manager tracks no
\* session and none of its sessions is still being closed.
C7_ShutdownReturnsAfterCloses ==
  done.op = "shutdown" =>
    /\ Tracked(done.svc) = {}
    /\ InFlightCloses(done.svc) = {}

\* C8: once a manager is shutting down it stays so, and a createSession that
\* starts then fails at once: it is not admitted to launch a browser and
\* changes neither the sessions nor the browsers.
C8_NoCreateAfterShutdown ==
  [][\A v \in Services : svcs[v].isShuttingDown =>
       /\ svcs'[v].isShuttingDown
       /\ \A t \in 1..MaxCalls :
            (tasks'[t].op \in CreateOps /\ tasks'[t].svc = v) => tasks[t] # Idle
       /\ (done = NoDone /\ done'.op \in CreateOps /\ done'.steps = "sync" /\ done'.svc = v)
            => (done'.result = "error" /\ svcs' = svcs /\ browsers' = browsers)]_vars

\* C8 witness: a browser.create that arrived at a manager shutting down was
\* answered with an error.
C8_Witness ==
  /\ done.op = "browser.create"
  /\ done.steps = "sync"
  /\ done.svc # 0
  /\ svcs[done.svc].isShuttingDown
  /\ done.result = "error"

\* C9 (as claimed): while a stop() is closing sessions no listener of the
\* gateway is listening.
C9_ListenerClosedFirst ==
  \A t \in 1..MaxCalls :
    (tasks[t].op = "stop" /\ ~Settled(tasks[t].kids)) => Listening = {}

\* C10: whatever stop() calls are made, each manager's shutdown runs at most
\* once and each WebSocket server and HTTP server is closed at most once; a
\* stop() on a gateway that is not running changes nothing.
C10_StopIdempotent ==
  [][/\ \A v \in DOMAIN svcs' : svcs'[v].shutdownRuns <= 1
     /\ \A i \in DOMAIN servers' : servers'[i].wsCloses <= 1 /\ servers'[i].httpCloses <= 1
     /\ (done = NoDone /\ done'.op = "stop" /\ done'.steps = "sync" /\ ~isRunning)
          => UNCHANGED <<gatewayVars, svcs, browsers, conns, tasks>>]_vars

\* C10 witness: a second stop() ran to its end while the first was still
\* awaiting the closing of a session.
C10_Witness ==
  /\ done.op = "stop"
  /\ done.steps = "sync"
  /\ done.result = "ok"
  /\ \E t \in 1..MaxCalls : tasks[t].op = "stop" /\ ~Settled(tasks[t].kids)

\* A shutdown() or a stop() that is awaiting the closing of its sessions.
ClosingAll(t) == tasks[t].op \in {"shutdown", "stop"} /\ ~Settled(tasks[t].kids)

\* C11: when every close eventually returns or throws, a shutdown() or stop()
\* that waits for its sessions to close eventually returns, and every
\* shutdown() and stop() that returns does so without raising an error.
C11_ShutdownReturns ==
  /\ \A t \in 1..MaxCalls : ClosingAll(t) ~> (tasks[t] = Gone)
  /\ [](done.op \in {"shutdown", "stop"} => done.result \in {"ok", "noop"})

\* C11 witness: a shutdown() returned normally although a close of its only
\* session threw: the three calls made were start(), one create and this
\* shutdown(), so the one browser launched belonged to the session shutdown()
\* closed, and it is still running.
C11_Witness ==
  /\ done.op = "shutdown"
  /\ done.steps = "async"
  /\ done.result = "ok"
  /\ Cardinality({t \in 1..MaxCalls : tasks[t] = Gone}) = 3
  /\ \A t \in 1..MaxCalls : tasks[t] \in {Gone, Idle}
  /\ Len(browsers) = 1
  /\ browsers[1].running

\* The close of session id s by call t is pending before the step and has
\* ended with it.
CloseEnds(t, s) ==
  /\ tasks[t].kids[s].pc \in {"ctx", "browser"}
  /\ tasks'[t].kids[s].pc \notin {"ctx", "browser"}

\* C12: when a closeSession(id) of a tracked session ends, whether its
\* context.close() or browser.close() returned or threw, id is not tracked
\* and the caller that resumes with it resumes normally.
C12_CloseAlwaysUntracks ==
  [][\A t \in 1..MaxCalls, s \in SessionIds : CloseEnds(t, s) =>
       /\ svcs'[tasks[t].svc].sessions[s] = 0
       /\ done' # NoDone => (done'.result = "ok" /\ done'.op = tasks[t].op)]_vars

\* C12 witness: closeSession(id) returned normally with id untracked after a
\* close threw: the three calls made were start(), one create and this
\* closeSession, and the browser of the session is still running.
C12_Witness ==
  /\ done.op = "closeSession"
  /\ done.steps = "async"
  /\ done.result = "ok"
  /\ svcs[done.svc].sessions[done.arg] = 0
  /\ Cardinality({t \in 1..MaxCalls : tasks[t] = Gone}) = 3
  /\ \A t \in 1..MaxCalls : tasks[t] \in {Gone, Idle}
  /\ Len(browsers) = 1
  /\ browsers[1].id = done.arg
  /\ browsers[1].running

\* C13 (as claimed): a closeSession that awaits context.close() goes on to
\* call browser.close() whether context.close() returned or threw, so that a
\* session is removed only after both releases were attempted.
C13_BothReleasesAttempted ==
  [][\A t \in 1..MaxCalls, s \in SessionIds :
       tasks[t].kids[s].pc = "ctx" => tasks'[t].kids[s].pc \in {"ctx", "browser"}]_vars

\* A navigate whose page.goto timed out or failed returns its error.
NavigateFails ==
  /\ done = NoDone
  /\ done'.op \in {"browser.navigate", "navigate"}
  /\ done'.steps = "async"
  /\ done'.result = "error"

\* A call naming a session id is refused in the turn it arrives in.
RefusedAtOnce ==
  /\ done = NoDone
  /\ done'.op \in {"browser.navigate", "browser.content", "browser.close",
                   "navigate", "getTextContent", "closeSession"}
  /\ done'.steps = "sync"
  /\ done'.result = "error"
  /\ done'.svc # 0
  /\ done'.arg \in SessionIds

\* C14: a navigate that fails changes no tracked session and no browser, so
\* its session stays tracked and open; and a navigate, getTextContent or
\* closeSession is refused only when the id it names is not tracked, so a
\* later one on the same id is accepted.
C14_FailedNavigateKeepsSession ==
  [][/\ NavigateFails => (svcs' = svcs /\ browsers' = browsers)
     /\ RefusedAtOnce => svcs[done'.svc].sessions[done'.arg] = 0]_vars

\* C14 witness: a browser.navigate was answered with the navigation error and
\* its session is tracked with its browser running.
C14_Witness ==
  /\ done.op = "browser.navigate"
  /\ done.steps = "async"
  /\ done.result = "error"
  /\ done.sent = SendError(done.mid, "Error: navigation")
  /\ svcs[done.svc].sessions[done.arg] # 0
  /\ browsers[svcs[done.svc].sessions[done.arg]].running

PageOps == DirectPageOps \cup {"browser.navigate", "browser.content"}

\* A page operation naming id s returns in the turn it was called in, on a
\* manager that does not track s.
PageCallOfUnknown(s) ==
  /\ done = NoDone
  /\ done'.op \in PageOps
  /\ done'.steps = "sync"
  /\ done'.arg = s
  /\ done'.svc # 0
  /\ svcs[done'.svc].sessions[s] = 0

\* C15: no page operation is started on an id its manager does not track;
\* such a call fails at once, leaves sessions, browsers and pending calls as
\* they were, and a browser.navigate or browser.content frame is answered
\* with exactly one session-not-found error carrying the frame's id.
C15_UnknownSessionRejected ==
  [][/\ \A t \in 1..MaxCalls :
          (tasks[t] = Idle /\ tasks'[t].op \in PageOps)
            => svcs[tasks'[t].svc].sessions[tasks'[t].sid] # 0
     /\ \A s \in SessionIds : PageCallOfUnknown(s) =>
          /\ done'.result = "error"
          /\ UNCHANGED <<svcs, browsers, tasks>>
          /\ done'.sent = IF done'.op \in FrameOps
                            THEN <<Resp("error", done'.mid, "Error: Session not found", "", 0)>>
                            ELSE <<>>]_vars

\* C15 witness: getContent named an id its manager does not track, while the
\* manager tracks another session, and failed at once.
C15_Witness ==
  /\ done.op = "getContent"
  /\ done.steps = "sync"
  /\ done.result = "error"
  /\ svcs[done.svc].sessions[done.arg] = 0
  /\ Tracked(done.svc) # {}

\* A web_search call returned in the latest step with a payload marked cached.
ServedFromCache ==
  /\ done.op = "web_search"
  /\ done.sent[1].cached

\* C16 (as claimed): a payload is served from the cache only while the age of
\* its entry is below the TTL at the read, whether or not the cleanup timer
\* of the entry has run.
C16_ServedOnlyIfValid ==
  ServedFromCache => isCacheValid(ReadCache(CacheKey(done.arg)))

Admitted(c) == searches[c].pc = "idle" /\ searches'[c].pc = "provider"

C19_Failover ==
  [][\A c \in 1..MaxSearches :
       LET sc == searches[c]  sn == searches'[c]
       IN /\ (sc.pc = "provider" /\ sn.pc = "jina")
               => /\ sn.instance = sc.order[sc.i]
                  /\ sn.i = sc.i
                  /\ sn.results # <<>>
          /\ (sc.pc = "provider" /\ sn.pc = "gone" /\ done'.sent[1].error = "")
               => /\ done'.sent[1].instance = sc.order[sc.i]
                  /\ done'.sent[1].count > 0
          /\ sc.pc = "jina"
               => /\ sn.pc \in {"jina", "gone"}
                  /\ sn.pc = "jina" => (sn.instance = sc.instance /\ sn.results = sc.results)
                  /\ sn.pc = "gone" => /\ done'.sent[1].instance = sc.instance
                                       /\ done'.sent[1].count = Len(sc.results)
          /\ sc.pc = "gone" => sn.pc = "gone"]_vars

\* C19 witness: a search goes on with the results of the second or third
\* instance it asked, the ones asked before having failed or found nothing.
C19_Witness ==
  \E c \in 1..MaxSearches :
    /\ searches[c].pc = "jina"
    /\ searches[c].i \in {2, 3}
    /\ searches[c].instance \in Instances

\* C20: a search asks one instance at a time: the instances asked so far are
\* the first i of the shuffled pool, all different; the shuffled pool does
\* not change, and a step moves on by at most one instance, which is asked
\* in the step in which the request before it ended.
C20_SequentialAttempts ==
  [][\A c \in 1..MaxSearches :
       LET sc == searches[c]  sn == searches'[c]
       IN sn.pc = "provider" =>
            /\ sn.i \in 1..Len(sn.order)
            /\ \A j, k \in 1..sn.i : j # k => sn.order[j] # sn.order[k]
            /\ \/ Admitted(c) /\ sn.i = 1
               \/ sc.pc = "provider" /\ sn.order = sc.order /\ sn.i \in {sc.i, sc.i + 1}]_vars

\* C20 witness: a search is asking the third instance after the first two
\* failed or found nothing.
C20_Witness ==
  \E c \in 1..MaxSearches :
    /\ searches[c].pc = "provider"
    /\ searches[c].i = 3

\* Call c returns in this step from the provider loop with no result at all.
NoResultsReturn(c) ==
  /\ searches[c].pc = "provider"
  /\ searches'[c] = GoneSearch
  /\ done'.sent[1].contents = <<>>

\* C21: a search whose last instance fails or answers without results
\* returns normally, with an empty result list, count 0 and the error text
\* "No results found from any SearXNG instance"; the payload returned is the
\* value written to the cache under the request's key; and a request that
\* finds this entry is answered with it at once, no provider being asked.
C21_NoResultsCached ==
  [][/\ \A c \in 1..MaxSearches :
          /\ NoResultsReturn(c)
               => /\ searches[c].i = Len(searches[c].order)
                  /\ done'.op = "web_search"
                  /\ done'.result = "ok"
                  /\ done'.sent = <<[query |-> searches[c].req.query, instance |-> "",
                                     count |-> 0, contents |-> <<>>, results |-> <<>>,
                                     error |-> "No results found from any SearXNG instance",
                                     cached |-> FALSE]>>
                  /\ searchCache'[CacheKey(searches[c].req)]
                       = [value |-> done'.sent[1], timestamp |-> now]
          /\ searches'[c].pc = "provider" => searches'[c].i <= Len(searches'[c].order)
     /\ \A c \in 1..MaxSearches :
          Admitted(c) => searchCache[CacheKey(searches'[c].req)] = NoEntry
     /\ (/\ done = NoDone
         /\ done'.op = "web_search"
         /\ done'.steps = "sync"
         /\ searchCache[CacheKey(done'.arg)].value.count = 0)
          => /\ done'.sent[1].error = "No results found from any SearXNG instance"
             /\ done'.sent[1].contents = <<>>
             /\ done'.sent[1].cached
             /\ UNCHANGED searches]_vars

\* C21 witness: a request was answered at once from the entry that a search
\* without results left in the cache, inside its TTL window.
C21_Witness ==
  /\ done.op = "web_search"
  /\ done.steps = "sync"
  /\ done.sent[1].cached
  /\ done.sent[1].count = 0
  /\ done.sent[1].error = "No results found from any SearXNG instance"
  /\ isCacheValid(searchCache[CacheKey(done.arg)])

\* C22: a request with fetchContent false is answered, afresh or from the
\* cache, with a payload in which no result carries content, and while it is
\* running no content extraction is called for it.
C22_NoContentUnlessAsked ==
  /\ (done.op = "web_search" /\ ~done.arg.fetchContent)
       => \A j \in DOMAIN done.sent[1].contents : ~done.sent[1].contents[j]
  /\ \A c \in 1..MaxSearches : searches[c].pc = "jina" => searches[c].req.fetchContent

\* The content flags of call c after the step: those it holds, or those of
\* the payload it returns.
ContentsAfter(c) ==
  IF searches'[c].pc = "jina" THEN searches'[c].contents ELSE done'.sent[1].contents

\* C23: when the content extraction of a result settles, by success or by
\* failure, the results processed before keep what they had, the result gets
\* content or none, every result passed over without a call has no url, the
\* next call is for the next result with a url, and after the last result
\* the search returns normally a payload with one entry per result.
C23_ExtractionFailureIsolated ==
  [][\A c \in 1..MaxSearches :
       (searches[c].pc = "jina" /\ searches'[c] # searches[c])
         => LET old == searches[c].contents
                new == ContentsAfter(c)
                res == searches[c].results
            IN /\ Len(old) < Len(new)
               /\ Len(new) <= Len(res)
               /\ SubSeq(new, 1, Len(old)) = old
               /\ \A k \in (Len(old) + 2)..Len(new) : ~res[k] /\ ~new[k]
               /\ Len(new) < Len(res)
                    => /\ searches'[c] = [searches[c] EXCEPT !.contents = new]
                       /\ res[Len(new) + 1]
               /\ Len(new) = Len(res)
                    => /\ searches'[c] = GoneSearch
                       /\ done'.op = "web_search"
                       /\ done'.result = "ok"
                       /\ done'.sent[1].count = Len(res)
                       /\ done'.sent[1].error = ""]_vars

\* C23 witness: a search has returned two results of which the first, whose
\* extraction failed, has no content and the second has.
C23_Witness ==
  /\ done.op = "web_search"
  /\ done.steps = "async"
  /\ done.sent[1].contents = <<FALSE, TRUE>>

\* C24: whatever search.timeoutSeconds is configured, the timeout resolved
\* for the provider requests lies between 1 and 120 seconds and the timeout
\* given to each content extraction is strictly shorter than it.
C24_ExtractionTimeoutShorter ==
  (input.fn = "timeout" /\ output.ok)
    => /\ output.n \in 1..MAX_TIMEOUT_SECONDS
       /\ output.m < output.n

\* C26: a text of more than 5000 characters comes back from the extraction
\* as its first 5000 characters followed by the truncation marker and nothing
\* else; a text of at most 5000 characters comes back as it is.
C26_ExtractedContentCut ==
  (input.fn = "extract" /\ output.ok)
    => IF Len(input.s) > MAX_CONTENT_LENGTH
         THEN /\ Len(output.s) = MAX_CONTENT_LENGTH + Len(TruncationMarker)
              /\ \A i \in 1..MAX_CONTENT_LENGTH : output.s[i] = input.s[i]
              /\ \A j \in 1..Len(TruncationMarker) :
                   output.s[MAX_CONTENT_LENGTH + j] = TruncationMarker[j]
         ELSE output.s = input.s

\* C26 witness: a text longer than the limit came back cut and marked.
C26_Witness ==
  /\ input.fn = "extract"
  /\ output.ok
  /\ Len(input.s) > MAX_CONTENT_LENGTH
  /\ Len(output.s) = MAX_CONTENT_LENGTH + Len(TruncationMarker)

\* C27: truncateContent applied to what it returned, with the same maximum,
\* returns it unchanged, and returns a text no longer than the maximum as it
\* is; the truncation of the extraction applied to what it returned returns
\* it unchanged.
C27_TruncationIdempotent ==
  /\ (input.fn = "truncateContent" /\ output.ok)
       => /\ truncateContent(output.s, input.n) = output.s
          /\ Len(input.s) <= input.n => output.s = input.s
  /\ (input.fn = "extract" /\ output.ok) => Extracted(output.s) = output.s

\* C27 witness: truncateContent has cut a text longer than the maximum back
\* to a space, so that its result is shorter than the maximum.
C27_Witness ==
  /\ input.fn = "truncateContent"
  /\ output.ok
  /\ Len(input.s) > input.n
  /\ Len(output.s) < input.n
  /\ SubSeq(output.s, Len(output.s) - Len(TruncationMarker) + 1, Len(output.s)) = TruncationMarker

\* C28: the count handed to the search lies between 1 and 10, and for a
\* count argument that is missing, NaN, Infinity or -Infinity the call does
\* not throw and the count is the default: search.maxResults if configured,
\* otherwise 5, brought into the range.
C28_CountResolved ==
  (input.fn = "count" /\ output # NoOutput)
    => /\ output.ok => output.n \in 1..MAX_SEARCH_COUNT
       /\ input.x.kind \in {"undefined", "NaN", "Infinity", "-Infinity"}
            => /\ output.ok
               /\ output.n = resolveSearchCount(IF input.y.kind = "undefined"
                                                  THEN Num(2 * DEFAULT_SEARCH_COUNT)
                                                  ELSE input.y,
                                                DEFAULT_SEARCH_COUNT)

\* The text is one raw text between the opening and the closing line that
\* wrapWebContent puts around it, and holds neither line a second time.
WrappedOnce(text, raw) ==
  /\ raw # <<>>
  /\ text = <<"<!-- EXTERNAL_CONTENT [Source: ", "web_search", "] -->\n">> \o raw
              \o <<"\n<!-- END_EXTERNAL_CONTENT -->">>
  /\ \A i \in DOMAIN raw :
       raw[i] \notin {"<!-- EXTERNAL_CONTENT [Source: ", "\n<!-- END_EXTERNAL_CONTENT -->"}

\* C25: in every payload returned, fresh or from the cache, the title, the
\* description and the content of each result are either empty or the
\* provider's title, the provider's description and the extracted text,
\* wrapped once; a result has content exactly when its extraction gave text.
C25_FieldsWrappedOnce ==
  done.op = "web_search"
    => LET p == done.sent[1]
       IN /\ DOMAIN p.results = DOMAIN p.contents
          /\ \A j \in DOMAIN p.results :
               /\ p.results[j].title = <<>> \/ WrappedOnce(p.results[j].title, RawTitle(j))
               /\ p.results[j].description = <<>>
                    \/ WrappedOnce(p.results[j].description, RawDescription(j))
               /\ p.results[j].content = <<>> \/ WrappedOnce(p.results[j].content, RawContent)
               /\ (p.results[j].title = <<>>) = (RawTitle(j) = <<>>)
               /\ (p.results[j].description = <<>>) = (RawDescription(j) = <<>>)
               /\ (p.results[j].content = <<>>) = ~p.contents[j]

\* C25 witness: a payload served from the cache holds a result with wrapped
\* title, description and content and a result with an empty description.
C25_Witness ==
  /\ done.op = "web_search"
  /\ done.steps = "sync"
  /\ done.sent[1].cached
  /\ Len(done.sent[1].results) = 2
  /\ WrappedOnce(done.sent[1].results[1].content, RawContent)
  /\ WrappedOnce(done.sent[1].results[1].description, RawDescription(1))
  /\ done.sent[1].results[2].description = <<>>

\* C29: the answer to a browser.content request that succeeded is one
\* browser.content frame whose content has the length min(L, 5000) for the
\* length L of a page text, hence never more than 5000 characters.
C29_ContentCapped ==
  (done.op = "browser.content" /\ done.result = "ok")
    => /\ Len(done.sent) = 1
       /\ done.sent[1].type = "browser.content"
       /\ done.sent[1].len <= ContentLimit
       /\ \E L \in PageTextLens :
            done.sent[1].len = (IF L < ContentLimit THEN L ELSE ContentLimit)

\* C29 witness: a page text longer than the limit was answered with exactly
\* 5000 characters.
C29_Witness ==
  /\ done.op = "browser.content"
  /\ done.result = "ok"
  /\ done.sent[1].len = ContentLimit
  /\ \E L \in PageTextLens : L > ContentLimit

\* The runWebSearch calls that wait for a content extraction.
Extracting == {c \in 1..MaxSearches : searches[c].pc = "jina"}

\* C30: whatever resources.maxSearchConcurrency is set to, no more content
\* extractions than that are in flight at any moment, all searches taken
\* together.
C30_ExtractionsBounded ==
  \A limit \in SearchConcurrencySettings : Cardinality(Extracting) <= limit

\* C31: when start() has rejected because the bind failed, the gateway
\* holds no HTTP server, no WebSocket server and no browser service and is
\* not running.
C31_FailedStartHoldsNothing ==
  (done.op = "start" /\ done.result = "throw")
    => /\ httpServer = 0
       /\ wsServer = 0
       /\ browserService = 0
       /\ ~isRunning

\* C32: with the browser disabled in the configuration there is never a
\* manager, a browser or a create in flight, and a browser.create frame with
\* id i is answered in the same turn with one error frame with id i and the
\* text "Browser service is disabled", nothing else changing.
C32_CreateWhileDisabled ==
  [][~browserEnabled
       => /\ browserService' = 0
          /\ svcs' = <<>>
          /\ browsers' = <<>>
          /\ \A t \in 1..MaxCalls : tasks'[t].op # "browser.create"
          /\ (done = NoDone /\ done'.op = "browser.create")
               => /\ done'.steps = "sync"
                  /\ done'.sent = <<[type |-> "error", mid |-> done'.mid,
                                     error |-> "Browser service is disabled",
                                     sessionId |-> "", len |-> 0]>>
                  /\ UNCHANGED <<svcs, browsers, tasks>>]_vars

\* C32 witness: a browser.create frame with an id was refused with the
\* browser disabled.
C32_Witness ==
  /\ ~browserEnabled
  /\ done.op = "browser.create"
  /\ done.mid = "m1"
  /\ done.result = "error"
  /\ isRunning

\* C33: whenever a connection is open the gateway can take a ping, whatever
\* else is going on; a ping with id i is answered in the same turn with one
\* pong frame with id i and changes neither the gateway's servers, nor the
\* managers and their sessions, nor the browsers, nor the calls in flight.
C33_PingAnswered ==
  [][/\ (Ready /\ conns # {}) => ENABLED RecvPing
     /\ (done = NoDone /\ done'.op = "ping")
          => /\ done'.conn \in conns
             /\ done'.sent = <<[type |-> "pong", mid |-> done'.mid, error |-> "",
                                sessionId |-> "", len |-> 0]>>
             /\ UNCHANGED <<gatewayVars, svcs, browsers, conns, tasks>>]_vars

\* C33 witness: a ping with an id was answered while a session was tracked
\* and a navigation was waiting for its page.
C33_Witness ==
  /\ done.op = "ping"
  /\ done.mid = "m1"
  /\ \E t \in 1..MaxCalls : tasks[t].pc = "goto"
  /\ browserService # 0
  /\ Tracked(browserService) # {}

\* The frames that name a session.
SessionFrames == {"browser.navigate", "browser.content", "browser.close"}

\* C34: the closing of a connection changes neither the managers and their
\* sessions, nor the browsers, nor the calls in flight; and a navigate,
\* content or close frame that names a tracked session is taken up, whatever
\* connection it arrives on, and never refused as naming an unknown session.
C34_NoConnectionAffinity ==
  [][/\ (conns' # conns /\ conns' \subseteq conns)
          => UNCHANGED <<gatewayVars, svcs, browsers, tasks>>
     /\ (/\ done = NoDone
         /\ done'.op \in SessionFrames
         /\ done'.steps = "sync"
         /\ browserService # 0
         /\ done'.arg \in SessionIds)
          => svcs[browserService].sessions[done'.arg] = 0
     /\ \A t \in 1..MaxCalls :
          (tasks[t] = Idle /\ tasks'[t].op \in SessionFrames)
            => /\ tasks'[t].conn \in conns
               /\ svcs[browserService].sessions[tasks'[t].sid] # 0
               /\ tasks'[t].h = IF tasks'[t].op = "browser.close" THEN 0
                                ELSE svcs[browserService].sessions[tasks'[t].sid]]_vars

\* C34 witness: the second connection has had a session closed, which the
\* first connection had created, after the first connection was closed.
C34_Witness ==
  /\ done.op = "browser.close"
  /\ done.conn = 2
  /\ done.steps = "async"
  /\ done.result = "ok"
  /\ 1 \notin conns

\* C35: between two turns the gateway can take up a frame of an open
\* connection, whatever handlers are suspended; a handler that answers at
\* once leaves the suspended ones as they are; and every answer, at once or
\* after a suspension, goes to the connection of its request with the id of
\* its request.
C35_SuspendedHandlerDoesNotBlock ==
  [][/\ (done = NoDone /\ conns # {}) => ENABLED RecvUnknown
     /\ (done = NoDone /\ done'.op \in FrameOps /\ done'.steps = "sync")
          => /\ tasks' = tasks
             /\ Len(done'.sent) = 1
             /\ done'.sent[1].mid = done'.mid
     /\ \A t \in 1..MaxCalls :
          (tasks[t].op \in FrameOps /\ tasks'[t] = Gone)
            => /\ done'.op = tasks[t].op
               /\ done'.conn = tasks[t].conn
               /\ Len(done'.sent) = 1
               /\ done'.sent[1].mid = tasks[t].mid
               /\ \A u \in 1..MaxCalls \ {t} : tasks'[u].mid = tasks[u].mid]_vars

\* C35 witness: a ping without id was answered on the connection on which a
\* browser.navigate with id m1, sent before it, is still waiting for its
\* page.
C35_Witness ==
  /\ done.op = "ping"
  /\ done.mid = NoId
  /\ \E t \in 1..MaxCalls :
       /\ tasks[t].op = "browser.navigate"
       /\ tasks[t].pc = "goto"
       /\ tasks[t].conn = done.conn
       /\ tasks[t].mid = "m1"

\* The calls suspended in manager v.
PendingIn(v) == {t \in 1..MaxCalls : tasks[t].svc = v /\ tasks[t].pc \notin {"idle", "gone"}}

\* C36: once shutdown() has begun on a manager and every call on that
\* manager has finished, createSession calls that were launching included,
\* the manager's session map is empty.
C36_NothingLeftAfterShutdown ==
  \A v \in Services :
    (svcs[v].isShuttingDown /\ PendingIn(v) = {}) => Tracked(v) = {}

\* The query in small letters, without white space at its ends and with
\* every run of white space brought down to one space.
FoldQuery(q) ==
  LET l == TrimEnd(TrimStart(ToLowerCase(q)))
      keep == {i \in DOMAIN l : ~(l[i] = " " /\ i > 1 /\ l[i - 1] = " ")}
  IN [j \in 1..Cardinality(keep) |->
        l[CHOOSE i \in keep : Cardinality({k \in keep : k <= i}) = j]]

\* C37: a request has the cache key of another request only if the two have
\* the same count and fetchContent flag and queries that differ in letter
\* case and white space only.
C37_DistinctRequestsDistinctKeys ==
  (input.fn = "key" /\ output.ok)
    => \A r \in KeyRequests :
         CacheKey(r) = output.s
           => /\ FoldQuery(r.query) = FoldQuery(input.s)
              /\ r.count = input.n
              /\ r.fetchContent = input.b

\* C38: no step creates an HTTP server while the gateway holds one, or a
\* browser service while it holds one, and the gateway holds the reference
\* of every server that is bound.
C38_OneServerHeld ==
  [][/\ Len(servers') > Len(servers) => httpServer = 0
     /\ Len(svcs') > Len(svcs) => browserService = 0
     /\ \A i \in 1..Len(servers') : servers'[i].state = "listening" => httpServer' = i]_vars

\* C39: the payload a search returns, afresh or from the cache, has as its
\* count the number of its results, and no more results than the request
\* asked for.
C39_CountIsNumberOfResults ==
  done.op = "web_search"
    => /\ done.sent[1].count = Len(done.sent[1].results)
       /\ done.sent[1].count <= done.arg.count

\* C40: the tasks parallel() has started and that have not finished are never
\* more than `concurrency`.
C40_AtMostConcurrencyRunning ==
  input.fn = "parallel" => Cardinality(par.running) <= input.n

====
